---- MODULE Spec2Model ----
(***************************************************************************)
(* Compound-growth simulation controller (the App component) together with *)
(* the insight service it calls.                                           *)
(*                                                                         *)
(* Granularity: one action is one callback of the program (a click or      *)
(* change handler, an animation-frame callback, the continuation of the    *)
(* awaited insight call) followed by the React commit it causes: the       *)
(* batched state updates are applied together and the two effects run.     *)
(*                                                                         *)
(* Numbers: values are exact rationals [num, den]; a value produced by k   *)
(* multiplications by (1 + p/100) is [(100+p)^k, 100^k], never reduced, so *)
(* record equality is equality of the numbers.  Floating-point rounding is *)
(* not modelled.                                                           *)
(*                                                                         *)
(* Time: only the difference timestamp - lastUpdateTimeRef is observed by  *)
(* the program, so the model keeps that difference (sinceLastUpdate),      *)
(* saturated at MaxElapsed, instead of the two absolute times.             *)
(***************************************************************************)
EXTENDS Integers, Sequences, FiniteSets, TLC

\* ---------------------------------------------------------------- bounds
\* Durations offered by the days slider (the source offers 30..730).
MaxDays == 2
\* Whole-percent rates offered by the rate slider (the source offers 0.1..5.0).
MaxRatePct == 2

DaysChoices == 1..MaxDays
RateChoices == 1..MaxRatePct

\* Values a change event can carry when nothing restricts the input element.
DaysInputsRaw == DaysChoices \cup {0, 0 - 1}
RateInputsRaw == RateChoices \cup {0 - 100, 0 - 200}

\* ------------------------------------------------------ program constants
ANIMATION_SPEED_MS == 20

\* Time between two delivered animation frames: shorter than the interval,
\* or longer than it.
FrameDeltas == {ANIMATION_SPEED_MS \div 2, ANIMATION_SPEED_MS + 1}
\* Saturation of the elapsed time (any value above the interval acts alike).
MaxElapsed == ANIMATION_SPEED_MS + 1
\* lastUpdateTimeRef.current still holds its initial 0.
Unset == 0 - 1

\* SimulationStatus
IDLE == "IDLE"
RUNNING == "RUNNING"
PAUSED == "PAUSED"
COMPLETED == "COMPLETED"

\* ------------------------------------------------------------ arithmetic
Min(a, b) == IF a < b THEN a ELSE b

One == [num |-> 1, den |-> 1]

\* val / 100 of handleRateChange, for a slider value of pct percent
RateOf(pct) == [num |-> pct, den |-> 100]

\* (1 + improvementRate)
OnePlus(rate) == [num |-> rate.den + rate.num, den |-> rate.den]

Mul(a, b) == [num |-> a.num * b.num, den |-> a.den * b.den]

\* ------------------------------------------------------------ data points
Point(d, v) == [day |-> d, value |-> v, baseline |-> One]

InitialPoint == Point(0, One)

\* calculateData: the whole projection for days 0..dys
RECURSIVE calculateDataFrom(_, _, _, _)
calculateDataFrom(i, val, dys, rate) ==
  IF i > dys THEN <<>>
  ELSE <<Point(i, val)>> \o calculateDataFrom(i + 1, Mul(val, OnePlus(rate)), dys, rate)

calculateData(dys, rate) == calculateDataFrom(0, One, dys, rate)

\* ------------------------------------------------------------- the state
VARIABLES
  status,           \* SimulationStatus
  currentDay,
  days,
  improvementRate,
  data,             \* sequence of points; data[i + 1] is the source's data[i]
  currentValue,
  insight,          \* <<>> for null, <<payload>> otherwise
  loadingInsight,
  animationFrames,  \* requested frames not yet fired or cancelled; each holds
                    \* what its step closure captured, and handle = TRUE for
                    \* the frame animationFrameRef.current names
  sinceLastUpdate,  \* Unset, or time of the latest frame - lastUpdateTimeRef
  apiKey,           \* TRUE when process.env.API_KEY is set
  inFlight,         \* insight calls awaiting their result
  issued,           \* history: insight requests issued for the current run
  pausedInRun,      \* history: the current run was paused at least once
  lastOp            \* history: the callback that ran last and its input
                    \* (slider value, frame delay, or service outcome)

vars == <<status, currentDay, days, improvementRate, data, currentValue,
          insight, loadingInsight, animationFrames, sinceLastUpdate, apiKey,
          inFlight, issued, pausedInRun, lastOp>>

Op(name, arg) == [op |-> name, arg |-> arg, outcome |-> "none", called |-> FALSE]

\* ------------------------------------------------------ animation frames
\* the step function of one render: the values its closure captured
Closure(st, day, dys, rate) ==
  [status |-> st, currentDay |-> day, days |-> dys, improvementRate |-> rate]

\* animationFrameRef.current = requestAnimationFrame(step)
RequestFrame(frames, c) ==
  {[f EXCEPT !.handle = FALSE] : f \in frames}
    \cup {[closure |-> c, handle |-> TRUE]}

\* a cancellation that is left out
CancelFrame_Missing(frames) == frames

\* if (animationFrameRef.current) cancelAnimationFrame(animationFrameRef.current)
CancelFrame(frames) == {f \in frames : ~f.handle}

\* ------------------------------------------------------------ the service
NotConfiguredInsight ==
  [title |-> "Configuration Required",
   message |-> "Please set your API_KEY to receive personalized AI insights about your growth simulation.",
   analogy |-> "Missing Key"]

FailedInsight ==
  [title |-> "Insight Unavailable",
   message |-> "We couldn't generate a custom insight right now, but look at that chart! The growth speaks for itself.",
   analogy |-> "N/A"]

\* JSON.parse(response.text) of a successful call
GeneratedInsight ==
  [title |-> "generated title", message |-> "generated message",
   analogy |-> "generated analogy"]

\* What ai.models.generateContent can do when it is called: throw, answer
\* without text, answer with text JSON.parse rejects, or answer with an object
\* of the requested schema.  "none" stands for the call that is not made.
ServiceOutcomes(key) ==
  IF key THEN {"throws", "empty", "malformed", "object"} ELSE {"none"}

\* what an async call of the wrapper does: it resolves to result, or rejects
Resolved(called, result) == [called |-> called, rejected |-> FALSE, result |-> result]

\* a service wrapper that throws when no key is configured
generateGrowthInsightOn_ThrowsWithoutKey(key, outcome) ==
  IF ~key THEN [called |-> FALSE, rejected |-> TRUE, result |-> NotConfiguredInsight]
  ELSE IF outcome = "object" THEN Resolved(TRUE, GeneratedInsight)
  ELSE Resolved(TRUE, FailedInsight)

\* a service wrapper that parses whatever text it got, the missing one included
generateGrowthInsightOn_NoTextCheck(key, outcome) ==
  IF ~key THEN Resolved(FALSE, NotConfiguredInsight)
  ELSE IF outcome = "throws" THEN Resolved(TRUE, FailedInsight)
  ELSE IF outcome = "malformed" THEN Resolved(TRUE, FailedInsight)
  ELSE Resolved(TRUE, GeneratedInsight)

\* generateGrowthInsight for one outcome of the service: the value the promise
\* resolves to, and whether the service was called
generateGrowthInsightOn(key, outcome) ==
  IF ~key THEN Resolved(FALSE, NotConfiguredInsight)
  ELSE IF outcome = "throws" THEN Resolved(TRUE, FailedInsight)
  ELSE IF outcome = "empty" THEN Resolved(TRUE, FailedInsight)
  ELSE IF outcome = "malformed" THEN Resolved(TRUE, FailedInsight)
  ELSE Resolved(TRUE, GeneratedInsight)

\* generateGrowthInsight: the values the returned promise can resolve to
generateGrowthInsight(key) ==
  {generateGrowthInsightOn(key, o).result : o \in ServiceOutcomes(key)}

\* ------------------------------------------------------- pieces of the code
\* a step that skips a day
NextDay_Skipping(prev) == prev + 2

\* const nextDay = prev + 1
NextDay(prev) == prev + 1

\* a comparison that lets one more day through
PastLastDay_OffByOne(nextDay, dys) == nextDay > dys + 1

\* a comparison that completes the run one day short
PastLastDay_Early(nextDay, dys) == nextDay >= dys

\* if (nextDay > days)
PastLastDay(nextDay, dys) == nextDay > dys

\* a completing tick that returns nextDay instead of prev
CompletedDay_Advanced(prev) == prev + 1

\* return prev, the day kept by the tick that completes the run
CompletedDay(prev) == prev

\* a tick that adds the rate instead of compounding it
StepValue_Additive(prevVal, rate) ==
  [num |-> prevVal.num * rate.den + rate.num * prevVal.den,
   den |-> prevVal.den * rate.den]

\* setCurrentValue(prevVal => prevVal * (1 + improvementRate))
StepValue(prevVal, rate) == Mul(prevVal, OnePlus(rate))

\* a tick that compounds the first point instead of the last one
StepData_FromFirst(prevData, nextDay, rate) ==
  Append(prevData, Point(nextDay, Mul(prevData[1].value, OnePlus(rate))))

\* setData(prevData => [...prevData, {day, value, baseline}])
StepData(prevData, nextDay, rate) ==
  Append(prevData,
         Point(nextDay, Mul(prevData[Len(prevData)].value, OnePlus(rate))))

\* a comparison that lets a tick through at exactly the interval
TickDue_AtInterval(elapsed) == elapsed >= ANIMATION_SPEED_MS

\* if (elapsed > ANIMATION_SPEED_MS)
TickDue(elapsed) == elapsed > ANIMATION_SPEED_MS

\* if (status === RUNNING && currentDay < days), read from the closure
Reschedules(c) == c.status = RUNNING /\ c.currentDay < c.days

\* range inputs that stay enabled during a run
SliderDisabled_Never(st) == FALSE

\* disabled={status === SimulationStatus.RUNNING} of both range inputs
SliderDisabled(st) == st = RUNNING

\* a toggle that starts fresh only from IDLE at day 0
StartingFresh_IdleOnly(st, day) == st = IDLE /\ day = 0

\* a toggle that starts fresh only from COMPLETED
StartingFresh_CompletedOnly(st, day) == st = COMPLETED

\* status === COMPLETED || status === IDLE && currentDay === 0
StartingFresh(st, day) == st = COMPLETED \/ (st = IDLE /\ day = 0)

\* a resume that seeds the data as a fresh start does
ResumeData_Reseeded(prevData) == <<InitialPoint>>

\* the resuming branch of togglePlay leaves data alone
ResumeData(prevData) == prevData

\* a reset that forgets to clear the insight
ResetInsight_Kept(prevInsight) == prevInsight

\* setInsight(null) of resetSimulation
ResetInsight(prevInsight) == <<>>

\* a condition that also fetches while the run is still going
ShouldFetch_WhileRunning(st, ins, loading) ==
  st \in {RUNNING, COMPLETED} /\ ins = <<>> /\ ~loading

\* status === COMPLETED && !insight && !loadingInsight
ShouldFetch(st, ins, loading) == st = COMPLETED /\ ins = <<>> /\ ~loading

\* the arguments of generateGrowthInsight(days, improvementRate, currentValue)
Request(dys, rate, val) ==
  [days |-> dys, improvementRate |-> rate, finalValue |-> val, stale |-> FALSE]

\* history: a reset supersedes the run every call in flight was issued for
Superseded(calls) == [i \in DOMAIN calls |-> [calls[i] EXCEPT !.stale = TRUE]]

RemoveAt(s, i) == SubSeq(s, 1, i - 1) \o SubSeq(s, i + 1, Len(s))

\* --------------------------------------------------------------- the commit
\* The state as a record, so that a handler's batched updates can be written
\* as one EXCEPT.
Current ==
  [status |-> status, currentDay |-> currentDay, days |-> days,
   improvementRate |-> improvementRate, data |-> data,
   currentValue |-> currentValue, insight |-> insight,
   loadingInsight |-> loadingInsight, frames |-> animationFrames]

\* a reset that leaves the day counter and the value alone
Reset_KeepsDay(s) ==
  [s EXCEPT !.status = IDLE, !.data = <<InitialPoint>>,
            !.insight = ResetInsight(s.insight),
            !.frames = CancelFrame(s.frames)]

\* resetSimulation: the five setters and the cancellation
Reset(s) ==
  [s EXCEPT !.status = IDLE, !.currentDay = 0, !.currentValue = One,
            !.data = <<InitialPoint>>, !.insight = ResetInsight(s.insight),
            !.frames = CancelFrame(s.frames)]

\* an effect that runs after every commit and has no cleanup
AnimationEffect_NoCleanup(n) ==
  IF n.status = RUNNING
  THEN RequestFrame(n.frames,
         Closure(n.status, n.currentDay, n.days, n.improvementRate))
  ELSE n.frames

\* The animation effect, dependency [status]: when status changed, the cleanup
\* of the previous run of the effect cancels the frame the ref names, and the
\* effect requests a frame for the step function of the new render.
AnimationEffect(n) ==
  IF n.status = status THEN n.frames
  ELSE LET cleaned == CancelFrame(n.frames)
       IN IF n.status = RUNNING
          THEN RequestFrame(cleaned,
                 Closure(n.status, n.currentDay, n.days, n.improvementRate))
          ELSE cleaned

\* Commit of the state n a callback produced, then the two effects.  The
\* insight effect is evaluated after every commit: when none of its
\* dependencies changed its condition is false, because it was evaluated on the
\* same values at the commit before and has set loadingInsight since.
Commit(n, calls, count) ==
  LET fetch == ShouldFetch(n.status, n.insight, n.loadingInsight)
  IN /\ status' = n.status
     /\ currentDay' = n.currentDay
     /\ days' = n.days
     /\ improvementRate' = n.improvementRate
     /\ data' = n.data
     /\ currentValue' = n.currentValue
     /\ insight' = n.insight
     /\ animationFrames' = AnimationEffect(n)
     /\ loadingInsight' = (n.loadingInsight \/ fetch)
     /\ inFlight' = IF fetch
                    THEN Append(calls, Request(n.days, n.improvementRate, n.currentValue))
                    ELSE calls
     /\ issued' = IF fetch THEN count + 1 ELSE count
     /\ apiKey' = apiKey

\* ------------------------------------------------------------------- Init
\* useState initial values.  DEFAULT_DAYS and DEFAULT_IMPROVEMENT are replaced
\* by any value of the bounded sliders.
Init ==
  /\ status = IDLE
  /\ currentDay = 0
  /\ days \in DaysChoices
  /\ improvementRate \in {RateOf(p) : p \in RateChoices}
  /\ data = <<>>
  /\ currentValue = One
  /\ insight = <<>>
  /\ loadingInsight = FALSE
  /\ animationFrames = {}
  /\ sinceLastUpdate = Unset
  /\ apiKey \in BOOLEAN
  /\ inFlight = <<>>
  /\ issued = 0
  /\ pausedInRun = FALSE
  /\ lastOp = Op("mount", 0)

\* ---------------------------------------------------------------- actions
\* togglePlay while RUNNING
Pause ==
  /\ status = RUNNING
  /\ Commit([Current EXCEPT !.status = PAUSED,
                            !.frames = CancelFrame(animationFrames)],
            inFlight, issued)
  /\ pausedInRun' = TRUE
  /\ lastOp' = Op("pause", 0)
  /\ UNCHANGED sinceLastUpdate

\* togglePlay, "Starting fresh": resetSimulation(), setData, setStatus(RUNNING)
StartFresh ==
  /\ status # RUNNING
  /\ StartingFresh(status, currentDay)
  /\ Commit([Reset(Current) EXCEPT !.data = <<InitialPoint>>, !.status = RUNNING],
            Superseded(inFlight), 0)
  /\ pausedInRun' = FALSE
  /\ lastOp' = Op("start", 0)
  /\ UNCHANGED sinceLastUpdate

\* togglePlay, "Resuming"
Resume ==
  /\ status # RUNNING
  /\ ~StartingFresh(status, currentDay)
  /\ Commit([Current EXCEPT !.status = RUNNING, !.data = ResumeData(data)],
            inFlight, issued)
  /\ lastOp' = Op("resume", 0)
  /\ UNCHANGED <<sinceLastUpdate, pausedInRun>>

\* the reset button
resetSimulation ==
  /\ Commit(Reset(Current), Superseded(inFlight), 0)
  /\ pausedInRun' = FALSE
  /\ lastOp' = Op("reset", 0)
  /\ UNCHANGED sinceLastUpdate

\* handleRateChange with e.target.value = pct; the input is disabled while
\* status is RUNNING
handleRateChange(pct) ==
  /\ ~SliderDisabled(status)
  /\ Commit(Reset([Current EXCEPT !.improvementRate = RateOf(pct)]),
            Superseded(inFlight), 0)
  /\ pausedInRun' = FALSE
  /\ lastOp' = Op("rate", pct)
  /\ UNCHANGED sinceLastUpdate

\* handleDaysChange with e.target.value = d; disabled while RUNNING
handleDaysChange(d) ==
  /\ ~SliderDisabled(status)
  /\ Commit(Reset([Current EXCEPT !.days = d]), Superseded(inFlight), 0)
  /\ pausedInRun' = FALSE
  /\ lastOp' = Op("days", d)
  /\ UNCHANGED sinceLastUpdate

RateSlider == \E pct \in RateChoices : handleRateChange(pct)
DaysSlider == \E d \in DaysChoices : handleDaysChange(d)

\* step(timestamp): the callback of frame f, delivered dt after the frame
\* before it
step(f, dt) ==
  LET c == f.closure
      elapsed == IF sinceLastUpdate = Unset THEN 0
                 ELSE Min(sinceLastUpdate + dt, MaxElapsed)
      due == TickDue(elapsed)
      nextDay == NextDay(currentDay)
      done == due /\ PastLastDay(nextDay, c.days)
      advance == due /\ ~done
      fired == animationFrames \ {f}
      n == [Current EXCEPT
              !.status = IF done THEN COMPLETED ELSE @,
              !.currentDay = IF advance THEN nextDay
                             ELSE IF done THEN CompletedDay(@) ELSE @,
              !.currentValue = IF advance THEN StepValue(@, c.improvementRate) ELSE @,
              !.data = IF advance THEN StepData(@, nextDay, c.improvementRate) ELSE @,
              !.frames = IF Reschedules(c) THEN RequestFrame(fired, c) ELSE fired]
  IN /\ Commit(n, inFlight, issued)
     /\ sinceLastUpdate' = IF due THEN 0 ELSE elapsed
     /\ lastOp' = Op(IF advance THEN "tick" ELSE IF done THEN "complete" ELSE "frame", dt)
     /\ UNCHANGED pausedInRun

AnimationFrame == \E f \in animationFrames : \E dt \in FrameDeltas : step(f, dt)

\* the continuation of fetchInsight after the await, for call i, when the
\* service behaved as outcome; it runs only if the promise is not rejected
insightResult(i, outcome) ==
  LET r == generateGrowthInsightOn(apiKey, outcome)
  IN /\ ~r.rejected
     /\ r.result \in generateGrowthInsight(apiKey)
     /\ Commit([Current EXCEPT !.insight = <<r.result>>, !.loadingInsight = FALSE],
               RemoveAt(inFlight, i), issued)
     /\ lastOp' = [Op("insight", 0) EXCEPT !.outcome = outcome, !.called = r.called]
     /\ UNCHANGED <<sinceLastUpdate, pausedInRun>>

InsightArrives ==
  \E i \in DOMAIN inFlight :
    \E outcome \in ServiceOutcomes(apiKey) : insightResult(i, outcome)

Next ==
  \/ Pause
  \/ StartFresh
  \/ Resume
  \/ resetSimulation
  \/ RateSlider
  \/ DaysSlider
  \/ AnimationFrame
  \/ InsightArrives

Spec == Init /\ [][Next]_vars

\* The browser delivers every requested frame that is not cancelled, and the
\* promise of every insight call settles.
SpecLive == Spec /\ WF_vars(AnimationFrame) /\ WF_vars(InsightArrives)

\* Change events whose value no slider restricts
RateEvent == \E pct \in RateInputsRaw : handleRateChange(pct)
DaysEvent == \E d \in DaysInputsRaw : handleDaysChange(d)

NextRaw ==
  \/ Pause
  \/ StartFresh
  \/ Resume
  \/ resetSimulation
  \/ RateEvent
  \/ DaysEvent
  \/ AnimationFrame
  \/ InsightArrives

SpecRaw == Init /\ [][NextRaw]_vars

TypeOK ==
  /\ status \in {IDLE, RUNNING, PAUSED, COMPLETED}
  /\ currentDay \in 0..MaxDays
  /\ Len(insight) <= 1
  /\ Len(inFlight) <= 2
  /\ issued \in 0..2

\* ------------------------------------------------------------------ claims
ResetOps == {"reset", "start", "rate", "days"}

\* C1: in every reachable state currentValue is (1 + improvementRate) to the
\* power currentDay, for the rate that is active in that state.
C1_ValueMatchesDay ==
  LET RECURSIVE Pow(_, _)
      Pow(b, e) == IF e = 0 THEN 1 ELSE b * Pow(b, e - 1)
  IN currentValue =
       [num |-> Pow(improvementRate.den + improvementRate.num, currentDay),
        den |-> Pow(improvementRate.den, currentDay)]

C1_Witness ==
  /\ lastOp.op = "tick"
  /\ currentDay = 2
  /\ pausedInRun
  /\ improvementRate = RateOf(2)

\* C2: at all times, from creation on, data has currentDay + 1 points and the
\* point at index i is the point of day i.
C2_SeriesPrefix ==
  /\ Len(data) = currentDay + 1
  /\ \A i \in 0..(Len(data) - 1) : data[i + 1].day = i

\* C3: the result of an insight call whose run was superseded by a reset while
\* the call was in flight leaves insight as it is.
C3_StaleResultDiscarded ==
  [][\A i \in DOMAIN inFlight :
       (inFlight[i].stale /\ lastOp'.op = "insight" /\ inFlight' = RemoveAt(inFlight, i))
         => insight' = insight]_vars

\* C4: a run that has reached COMPLETED has had exactly one insight request
\* issued for it, and no run ever has two.
C4_OneRequestPerRun ==
  /\ issued <= 1
  /\ status = COMPLETED => issued = 1

\* C5: every value the ticks have put in data is the value calculateData
\* computes for that day under the active configuration.
C5_TicksMatchProjection ==
  LET projection == calculateData(days, improvementRate)
  IN /\ Len(data) <= Len(projection)
     /\ \A k \in DOMAIN data : data[k].value = projection[k].value

C5_Witness ==
  /\ status = COMPLETED
  /\ days = MaxDays
  /\ Len(data) = days + 1

\* C6: a run that was paused and resumed ends with the series of a run of the
\* same configuration that was never paused, which is calculateData's.
C6_PauseResumeSameSeries ==
  (status = COMPLETED /\ pausedInRun) => data = calculateData(days, improvementRate)

C6_Witness ==
  /\ status = COMPLETED
  /\ pausedInRun
  /\ days = MaxDays

\* C7: whatever the state reset is called in, the state after it is IDLE, day
\* 0, value 1, the one-point series and no insight.
C7_ResetState ==
  lastOp.op = "reset" =>
    /\ status = IDLE
    /\ currentDay = 0
    /\ currentValue = One
    /\ data = <<InitialPoint>>
    /\ insight = <<>>

C7_Witness ==
  /\ lastOp.op = "reset"
  /\ loadingInsight
  /\ inFlight # <<>>

\* C8: a tick applied when currentDay = days sets status to COMPLETED and
\* leaves currentDay, currentValue and data as they are.
C8_TerminalTick ==
  [][(lastOp'.op \in {"tick", "complete"} /\ currentDay = days)
       => (status' = COMPLETED /\ UNCHANGED <<currentDay, currentValue, data>>)]_vars

C8_Witness ==
  /\ lastOp.op = "complete"
  /\ status = COMPLETED
  /\ currentDay = days

\* C9: in one step currentDay stays, or grows by exactly 1 in an applied
\* tick, or is set to 0 by a reset.
C9_DayStep ==
  [][\/ currentDay' = currentDay
     \/ currentDay' = currentDay + 1 /\ lastOp'.op = "tick"
     \/ currentDay' = 0 /\ lastOp'.op \in ResetOps]_vars

C9_Witness ==
  /\ lastOp.op = "tick"
  /\ currentDay = 2

FrameOps == {"frame", "tick", "complete"}

\* C11: days and improvementRate never change while status is RUNNING, and
\* every applied change of either leaves the reset state: IDLE, day 0, value 1,
\* the one-point series, no insight.
C11_ConfigChangeResets ==
  [][(lastOp'.op \in {"rate", "days"} \/ days' # days
        \/ improvementRate' # improvementRate)
       => /\ status # RUNNING
          /\ lastOp'.op \in {"rate", "days"}
          /\ status' = IDLE
          /\ currentDay' = 0
          /\ currentValue' = One
          /\ data' = <<InitialPoint>>
          /\ insight' = <<>>]_vars

C11_Witness ==
  /\ lastOp.op = "rate"
  /\ improvementRate = RateOf(2)
  /\ status = IDLE
  /\ inFlight # <<>>

\* C12: while status is IDLE or PAUSED, that is after a pause or a reset and
\* before the next start or resume, no frame callback runs, so no tick
\* advances currentDay, changes currentValue or appends to data.
C12_NoTickAfterPauseOrReset ==
  [][(status = IDLE \/ status = PAUSED)
       => (lastOp'.op \notin FrameOps
           /\ (lastOp'.op \in {"start", "resume"}
                \/ (currentDay' \in {currentDay, 0}
                    /\ currentValue' \in {currentValue, One}
                    /\ data' \in {data, <<InitialPoint>>})))]_vars

C12_Witness ==
  /\ lastOp.op = "pause"
  /\ status = PAUSED
  /\ currentDay = 1
  /\ animationFrames = {}
\* C13: in every reachable state 0 <= currentDay <= days for the active days.
C13_DayInRange == 0 <= currentDay /\ currentDay <= days

C13_Witness ==
  /\ lastOp.op = "tick"
  /\ currentDay = days
  /\ days = MaxDays

\* C14 as stated: from COMPLETED only a reset (the button or a slider change)
\* changes status, currentDay, currentValue or data.
C14_OnlyResetLeavesCompleted ==
  [][status = COMPLETED
       => (lastOp'.op \in {"reset", "rate", "days"}
           \/ UNCHANGED <<status, currentDay, currentValue, data>>)]_vars

\* C14 as amended: from COMPLETED only a reset and togglePlay change status,
\* currentDay, currentValue or data; a reset leaves IDLE at day 0, togglePlay
\* resets and starts a new run (RUNNING at day 0, value 1, the one-point
\* series); no frame callback runs.
C14_ResetOrRestartLeavesCompleted ==
  [][status = COMPLETED
       => (/\ lastOp'.op \notin FrameOps
           /\ \/ lastOp'.op \in {"reset", "rate", "days"} /\ status' = IDLE
              \/ /\ lastOp'.op = "start"
                 /\ status' = RUNNING
                 /\ currentDay' = 0
                 /\ currentValue' = One
                 /\ data' = <<InitialPoint>>
              \/ UNCHANGED <<status, currentDay, currentValue, data>>)]_vars

C14_Witness ==
  /\ status = COMPLETED
  /\ lastOp.op = "insight"
  /\ insight # <<>>
  /\ currentDay = days

C16_InsightEventuallyAvailable ==
  /\ [](status = COMPLETED
          => <>(status # COMPLETED \/ (insight # <<>> /\ ~loadingInsight)))
  /\ [][lastOp'.op = "insight"
          => /\ Len(inFlight') = Len(inFlight) - 1
             /\ issued' = issued
             /\ insight' # <<>>
             /\ UNCHANGED <<status, currentDay, currentValue, data>>]_vars

C16_Witness ==
  /\ status = COMPLETED
  /\ lastOp.op = "insight"
  /\ lastOp.outcome = "throws"
  /\ insight = <<FailedInsight>>
  /\ ~loadingInsight
  /\ inFlight = <<>>

\* C17: generateGrowthInsight always resolves to an AIInsight: without an API
\* key to the "not configured" payload, without calling the service; when the
\* call throws or answers without text to the "call failed" payload; both
\* payloads have a non-empty title, message and analogy.
C17_AlwaysAnInsight ==
  /\ \A o \in ServiceOutcomes(apiKey) : ~generateGrowthInsightOn(apiKey, o).rejected
  /\ lastOp.op = "insight" =>
    /\ Len(insight) = 1
    /\ DOMAIN insight[1] = {"title", "message", "analogy"}
    /\ ~apiKey => (insight[1] = NotConfiguredInsight /\ ~lastOp.called)
    /\ apiKey => lastOp.called
    /\ (apiKey /\ lastOp.outcome \in {"throws", "empty"})
         => insight[1] = FailedInsight
    /\ insight[1] \in {NotConfiguredInsight, FailedInsight}
         => (insight[1].title # "" /\ insight[1].message # ""
             /\ insight[1].analogy # "")

C17_Witness ==
  /\ lastOp.op = "insight"
  /\ apiKey
  /\ lastOp.outcome = "empty"
  /\ insight = <<FailedInsight>>
\* C18: at any time at most one animation frame is requested and not yet
\* fired or cancelled.
C18_OneFrame == Cardinality(animationFrames) <= 1

C18_Witness ==
  /\ Cardinality(animationFrames) = 1
  /\ lastOp.op = "tick"
  /\ pausedInRun
  /\ inFlight # <<>>

\* C19: a frame callback applies at most one tick, and it applies one only
\* when more than ANIMATION_SPEED_MS of frame time has passed since the tick
\* applied before it (sinceLastUpdate is the frame time since that tick, and
\* the frame's input is the time since the frame before).
C19_TickPacing ==
  [][lastOp'.op \in FrameOps
       => /\ currentDay' \in {currentDay, currentDay + 1}
          /\ Len(data') \in {Len(data), Len(data) + 1}
          /\ lastOp'.op \in {"tick", "complete"}
               => (sinceLastUpdate # Unset
                   /\ sinceLastUpdate + lastOp'.arg > ANIMATION_SPEED_MS)]_vars

C19_Witness ==
  /\ lastOp.op = "tick"
  /\ lastOp.arg = ANIMATION_SPEED_MS \div 2
  /\ pausedInRun
  /\ currentDay = 1

\* C20: whenever status is RUNNING, status eventually leaves RUNNING: the run
\* reaches COMPLETED unless a pause or a reset comes first.
C20_RunningCompletes == [](status = RUNNING => <>(status # RUNNING))

\* C21: the pause (togglePlay while RUNNING) sets status to PAUSED, cancels
\* the requested frame and leaves currentDay, currentValue, data, insight,
\* days and improvementRate as they are; these six stay as they are in every
\* step that begins and ends with status PAUSED.
C21_PauseFreezes ==
  [][LET Frozen == <<currentDay, currentValue, data, insight, days, improvementRate>>
     IN /\ lastOp'.op = "pause"
             => (status = RUNNING /\ status' = PAUSED /\ animationFrames' = {}
                 /\ UNCHANGED Frozen)
        /\ (status = PAUSED /\ status' = PAUSED) => UNCHANGED Frozen]_vars

\* C22: a request is issued only in a commit that ends with status COMPLETED
\* and changes none of currentDay, currentValue and data; its arguments are
\* the days and improvementRate of the run and a finalValue that is
\* currentValue, the value of the point of day days, and (1 + improvementRate)
\* to the power days.
C22_RequestAtCompletion ==
  [][Len(inFlight') > Len(inFlight)
       => LET RECURSIVE Pow(_, _)
              Pow(b, e) == IF e = 0 THEN 1 ELSE b * Pow(b, e - 1)
              r == inFlight'[Len(inFlight')]
          IN /\ status' = COMPLETED
             /\ lastOp'.op = "complete"
             /\ UNCHANGED <<currentDay, currentValue, data>>
             /\ r.days = days' /\ r.days = days
             /\ r.improvementRate = improvementRate'
             /\ r.improvementRate = improvementRate
             /\ r.finalValue = currentValue'
             /\ Len(data') = r.days + 1
             /\ r.finalValue = data'[r.days + 1].value
             /\ r.finalValue =
                  [num |-> Pow(r.improvementRate.den + r.improvementRate.num, r.days),
                   den |-> Pow(r.improvementRate.den, r.days)]]_vars

C22_Witness ==
  /\ lastOp.op = "complete"
  /\ status = COMPLETED
  /\ pausedInRun
  /\ Len(inFlight) = 1
  /\ inFlight[1].days = MaxDays
  /\ inFlight[1].improvementRate = RateOf(MaxRatePct)
  /\ inFlight[1].finalValue = currentValue

\* C23: in every reachable state with status COMPLETED, currentDay is days
\* and the last point of data is the point of day days.
C23_CompletedAtLastDay ==
  status = COMPLETED
    => /\ currentDay = days
       /\ data # <<>>
       /\ data[Len(data)].day = days

C23_Witness ==
  /\ status = COMPLETED
  /\ lastOp.op = "complete"
  /\ pausedInRun
  /\ days = MaxDays
  /\ Len(data) = MaxDays + 1

\* C24: in every reachable state with status IDLE, currentDay is 0 and
\* currentValue is 1; togglePlay never takes its resuming branch from IDLE.
C24_IdleAtDayZero ==
  status = IDLE => (currentDay = 0 /\ currentValue = One
                    /\ StartingFresh(status, currentDay))

C24_Witness ==
  /\ status = IDLE
  /\ lastOp.op = "reset"
  /\ inFlight # <<>>
  /\ inFlight[1].finalValue # One
  /\ currentValue = One
====
